---- MODULE Spec2Model ----
(***************************************************************************)
(* A model of the trajectory playback engine (Replayer.run), the actuator  *)
(* interface it commands (G1Interface) and the music layer built on them   *)
(* (MusicReplayer.parse_sequence / play_song / _play_chord).               *)
(*                                                                         *)
(* Time is wall-clock time in milliseconds.  A speed is kept in quarters   *)
(* (speed 1.0 is 4), so a playback time is kept in quarter-milliseconds.   *)
(* A joint position vector is one rational n/d, kept in lowest terms in a  *)
(* pose record; every commanded joint receives it.  `now` is the clock of  *)
(* the main thread; a note task counts the time it has slept itself.       *)
(***************************************************************************)
EXTENDS Integers, Sequences, FiniteSets, TLC

VARIABLES
    invocation,              \* which entry point runs: "run" | "song" | "parse" | "sample"
    now,                     \* time.time()
    \* ---- G1Interface
    low_state,               \* FALSE: self.low_state is None
    is_initialized,
    low_cmd,                 \* self.low_cmd.motor_cmd, per joint
    low_cmd_crc,             \* self.low_cmd.crc
    published,               \* the last message given to lowcmd_publisher.Write
    \* ---- Replayer
    episode, playback_speed, skip_transition,
    pc, running, paused, start_time, pause_time, accumulated_pause_time,
    target_pos, trans_start, hold_i, outcome,
    stdin,                   \* unread characters of sys.stdin
    \* ---- Replayer._get_target_position called on its own
    sample_ep, sample_t, sample_result,
    \* ---- MusicReplayer.parse_sequence
    sequence_str,            \* the text, as the items its separators delimit
    parse_result,            \* what parse_sequence returned or raised
    config,                  \* self.config: the notes and the tempo table
    validate_result,         \* what validate_sequence returned or raised
    \* ---- MusicReplayer.play_song
    skip_init, skip_final, note_speed,
    tempo_multiplier,        \* in quarters, as the speeds
    bad_episodes,            \* the episodes whose load raises
    song_pc, playing, chord_i, spawn_i,
    threads,                 \* the note tasks of the chord being played
    song_tr,                 \* start_time of _transition_to_position
    \* ---- history of the song (not program state)
    writers, torn, note_raised, transition_raised, final_started, song_result,
    song_log,                \* the commands of the transitions, the chords started
                             \* and the waits slept, in the order they happened
    \* ---- history of the run (not program state)
    nkeys, polls, paused_wall, pose_at_cancel, sends_since_cancel, no_state_at_start,
    sent_elapsed,            \* the elapsed time the last pose of the loop was sampled at
    after_resume,            \* a pause has ended and no pose was sent since
    \* ---- two calls of play_song side by side: their arguments, what each was seen to do
    knob_a, knob_b, knob_obs,
    \* ---- MusicConfig edited on its own
    cfg_tempo_bpm, cfg_note_durations,
    cfg_file,                \* the JSON file of the instrument, as save() wrote it
    cfg_last,                \* the last call and what it raised (not program state)
    \* ---- Recorder and EpisodeTrimmer
    rec_pc,                  \* "recording" | "loaded"
    timestamps, joint_positions,
    trim_last,               \* the last trim and what it raised (not program state)
    \* ---- G1Interface called on its own
    call                     \* the last call, its joint_indices, what it raised (not program state)

runVars == <<episode, playback_speed, skip_transition, pc, running, paused,
             start_time, pause_time, accumulated_pause_time, target_pos,
             trans_start, hold_i, outcome, stdin, nkeys, polls, paused_wall,
             pose_at_cancel, sends_since_cancel, sent_elapsed, after_resume>>
ifaceVars == <<low_state, is_initialized, low_cmd, low_cmd_crc, published>>
sampleVars == <<sample_ep, sample_t, sample_result>>
knobVars == <<knob_a, knob_b, knob_obs>>
configVars == <<cfg_tempo_bpm, cfg_note_durations, cfg_file, cfg_last>>
trimVars == <<rec_pc, timestamps, joint_positions, trim_last>>
unitVars == <<knobVars, configVars, trimVars, call>>
parseVars == <<sequence_str, parse_result, config, validate_result>>
songIn == <<skip_init, skip_final, note_speed, tempo_multiplier, bad_episodes>>
songVars == <<song_pc, playing, chord_i, spawn_i, threads, song_tr, writers, torn,
              note_raised, transition_raised, final_started, song_result, song_log>>
vars == <<invocation, now, ifaceVars, runVars, sampleVars, unitVars, parseVars, songIn, songVars,
          no_state_at_start>>

----------------------------------------------------------------------------
(* Bounds of the model *)

Epoch == 100                 \* the value of time.time() when the model starts
MaxKeys == 2                 \* key presses during one run
MaxPausePolls == 2           \* paused polls that read no key
TransitionDuration == 4      \* Replayer.transition_duration, in ms

(* Program constants *)

Tick == 2                    \* time.sleep(0.002)
PausePoll == 10              \* time.sleep(0.01)
HoldTicks == 100             \* for _ in range(100)
SpeedMin == 1                \* np.clip(playback_speed, 0.25, ...)
SpeedMax == 8                \* np.clip(playback_speed, ..., 2.0)

----------------------------------------------------------------------------
(* Joints and joint groups (g1_interface.py).  The 29 motors are modelled  *)
(* by four: one leg joint, one waist joint, one joint of each arm.         *)

Joints == {"leg", "waist", "left_arm", "right_arm"}

JOINT_GROUPS ==
    [legs  |-> <<"leg">>,
     waist |-> <<"waist">>,
     arms  |-> <<"left_arm", "right_arm">>,
     all   |-> <<"leg", "waist", "left_arm", "right_arm">>]

Range(f) == {f[i] : i \in DOMAIN f}

get_joint_indices(group) == JOINT_GROUPS[group]

----------------------------------------------------------------------------
(* Poses *)

RECURSIVE Gcd(_, _)
Gcd(a, b) == IF b = 0 THEN a ELSE Gcd(b, a % b)

Abs(x) == IF x < 0 THEN -x ELSE x

NonePose == [k |-> "none", n |-> 0, d |-> 1]

\* the rational n/d (d > 0) in lowest terms
Frac(n, d) ==
    LET g == Gcd(Abs(n), d)
    IN  [k |-> "pos", n |-> n \div g, d |-> d \div g]

\* a blend whose elapsed time is read after the tick was slept
Blend_Late(elapsed, duration) == [k |-> "blend", n |-> elapsed + Tick, d |-> duration]

\* start + (target - start) * (1 - cos(ratio*pi))/2 at ratio = elapsed/duration
Blend(elapsed, duration) == [k |-> "blend", n |-> elapsed, d |-> duration]

\* state.positions as read from the robot
CurrentPose == [k |-> "current", n |-> 0, d |-> 1]

----------------------------------------------------------------------------
(* Episodes *)

Episode(ts, ps, group) ==
    [timestamps |-> ts, joint_positions |-> ps, joint_indices |-> get_joint_indices(group)]

RunEpisodes ==
    { Episode(<<0>>, <<3>>, "arms"),
      Episode(<<0, 4>>, <<0, 8>>, "arms"),
      Episode(<<0, 2, 6>>, <<5, 1, 9>>, "all") }

Last(s) == s[Len(s)]

\* np.searchsorted(timestamps, t), side='left', 0-based; tq is in quarter-ms
SearchSorted(ts, tq) ==
    LET lower == {i \in 1..Len(ts) : 4 * ts[i] < tq}
    IN  Cardinality(lower)

\* a sampler that holds the earlier frame of the bracketing pair
GetTargetPosition_StepHold(ep, tq) ==
    LET ts  == ep.timestamps
        ps  == ep.joint_positions
        idx == SearchSorted(ts, tq)
    IN  IF tq < 0 THEN Frac(ps[1], 1)
        ELSE IF tq > 4 * Last(ts) THEN NonePose
        ELSE IF idx = 0 THEN Frac(ps[1], 1)
        ELSE IF idx >= Len(ts) THEN Frac(Last(ps), 1)
        ELSE Frac(ps[idx], 1)

\* Replayer._get_target_position
GetTargetPosition(ep, tq) ==
    LET ts  == ep.timestamps
        ps  == ep.joint_positions
        idx == SearchSorted(ts, tq)
    IN  IF tq < 0 THEN Frac(ps[1], 1)
        ELSE IF tq > 4 * Last(ts) THEN NonePose
        ELSE IF idx = 0 THEN Frac(ps[1], 1)
        ELSE IF idx >= Len(ts) THEN Frac(Last(ps), 1)
        ELSE LET t0 == 4 * ts[idx]
                 t1 == 4 * ts[idx + 1]
                 p0 == ps[idx]
                 p1 == ps[idx + 1]
             IN  IF t1 > t0
                 THEN Frac(p0 * (t1 - t0) + (p1 - p0) * (tq - t0), t1 - t0)
                 ELSE Frac(p0, 1)

\* the result variable before _get_target_position has been called
NotSampled == [k |-> "unset", n |-> 0, d |-> 1]

\* an invocation that samples no episode on its own
SampleIdle ==
    /\ sample_ep = Episode(<<0>>, <<0>>, "all")
    /\ sample_t = 0
    /\ sample_result = NotSampled

\* np.clip(playback_speed, 0.25, 2.0)
Clip(x, lo, hi) == IF x < lo THEN lo ELSE IF x > hi THEN hi ELSE x

\* play_song's note_speed=None
NoneSpeed == -1

\* play_song, lines 220-222: the speed the notes are played at
SongNoteSpeed(speed, ns) == IF ns = NoneSpeed THEN speed ELSE ns

\* _play_sequence, line 318: wait_time, in ms
WaitTime(duration_seconds, multiplier) == (duration_seconds * multiplier) \div 4

\* the arguments of one call of play_song
SongArgs(speed, multiplier, ns) ==
    [playback_speed |-> speed, tempo_multiplier |-> multiplier, note_speed |-> ns]

\* what a call was seen to do, before it is made
NotObserved == [transition |-> 0, note |-> 0, wait |-> 0]

\* an invocation that compares no calls of play_song
KnobIdle ==
    /\ knob_a = SongArgs(4, 4, NoneSpeed)
    /\ knob_b = SongArgs(4, 4, NoneSpeed)
    /\ knob_obs = [a |-> NotObserved, b |-> NotObserved]

----------------------------------------------------------------------------
(* G1Interface *)

\* DEFAULT_KP and DEFAULT_KD, lines 132-146
DEFAULT_KP == [leg |-> 60, waist |-> 60, left_arm |-> 40, right_arm |-> 40]
DEFAULT_KD == [leg |-> 1, waist |-> 1, left_arm |-> 1, right_arm |-> 1]

\* an entry of motor_cmd no call has written
NoEntry == [mode |-> 0, q |-> NonePose, dq |-> 0, tau |-> 0, kp |-> 0, kd |-> 0]

\* send_joint_commands, lines 378-383: the entry of joint j, with the default
\* velocities, torques and gains
MotorCmd(j, pose) ==
    [mode |-> 1, q |-> pose, dq |-> 0, tau |-> 0, kp |-> DEFAULT_KP[j], kd |-> DEFAULT_KD[j]]

\* set_passive_mode, lines 321-326
PassiveCmd == [mode |-> 0, q |-> [k |-> "pos", n |-> 0, d |-> 1], dq |-> 0, tau |-> 0,
               kp |-> 0, kd |-> 0]
NoMsg == [motor_cmd |-> [j \in Joints |-> NoEntry], crc |-> [j \in Joints |-> NoEntry], sent |-> FALSE]

\* the checksum of a command: it identifies the content it was computed over
Crc(cmd) == cmd

\* a send that does not ask whether the interface is initialised
SendGuard_Unchecked == TRUE

\* send_joint_commands raises before it touches the command
SendGuard == is_initialized

\* one pass of `for i in joint_indices` for joint j
FillJoint(cmd, j, pose) == [cmd EXCEPT ![j] = MotorCmd(j, pose)]

\* a loop that writes the entry of every motor
FillAll_Every(cmd, idxs, pose) == [j \in Joints |-> MotorCmd(j, pose)]

\* the whole of `for i in joint_indices`
FillAll(cmd, idxs, pose) ==
    [j \in Joints |-> IF j \in Range(idxs) THEN MotorCmd(j, pose) ELSE cmd[j]]

\* G1Interface.send_joint_commands run by the only thread there is
SendJointCommands(pose, idxs) ==
    /\ SendGuard
    /\ low_cmd' = FillAll(low_cmd, idxs, pose)
    /\ low_cmd_crc' = Crc(low_cmd')
    /\ published' = [motor_cmd |-> low_cmd', crc |-> low_cmd_crc', sent |-> TRUE]
    /\ UNCHANGED <<low_state, is_initialized>>

\* G1Interface._low_state_handler: the subscriber delivers a first state
LowStateHandler ==
    /\ ~low_state
    /\ low_state' = TRUE
    /\ UNCHANGED <<unitVars, sampleVars, invocation, now, is_initialized, low_cmd, low_cmd_crc, published,
                   runVars, parseVars, songIn, songVars, no_state_at_start>>

\* the interface as a caller can find it: never initialised or timed out,
\* initialised, or shut down / state received after the timeout
InterfaceStates == { <<FALSE, FALSE>>, <<TRUE, TRUE>>, <<TRUE, FALSE>> }

----------------------------------------------------------------------------
(* MusicConfig: the note configuration and the tempo table *)

tempo_bpm == 120

\* MusicConfig._calculate_durations, in ms
CalculateDurations(bpm) ==
    LET beat_duration == 60000 \div bpm
    IN  [full           |-> beat_duration * 4,
         half           |-> beat_duration * 2,
         quarter        |-> beat_duration,
         eighth         |-> beat_duration \div 2,
         sixteenth      |-> beat_duration \div 4,
         quarter_dotted |-> (beat_duration * 3) \div 2,
         half_dotted    |-> beat_duration * 3]

note_durations == CalculateDurations(tempo_bpm)

\* MusicConfig.notes of the instrument under test: note -> hand, whether the
\* episode file exists, whether recorded_at is set
ConfigNotes ==
    [A |-> [hand |-> "left",  exists |-> TRUE,  recorded |-> TRUE],
     B |-> [hand |-> "left",  exists |-> TRUE,  recorded |-> TRUE],
     C |-> [hand |-> "right", exists |-> TRUE,  recorded |-> TRUE],
     D |-> [hand |-> "right", exists |-> FALSE, recorded |-> FALSE],
     E |-> [hand |-> "right", exists |-> TRUE,  recorded |-> FALSE]]

\* the MusicConfig a MusicReplayer is constructed with
MusicConfigInit == [notes |-> ConfigNotes, note_durations |-> note_durations]

----------------------------------------------------------------------------
(* MusicReplayer.parse_sequence *)

\* str.strip() on the fields the texts are built from
Strip(f) ==
    IF f = " C " THEN "C"
    ELSE IF f = "right " THEN "right"
    ELSE IF f = " " THEN ""
    ELSE f

\* str.lower() on a note name
LowerName(f) == IF f \in {"REST", "Rest"} THEN "rest" ELSE f

\* NoteAction.__init__
NoteAction(note, hand, duration, duration_seconds) ==
    [note |-> note, hand |-> hand, duration |-> duration,
     duration_seconds |-> duration_seconds, is_rest |-> (LowerName(note) = "rest")]

\* a chord that lasts as long as its first note
MaxDuration_First(notes) == notes[1].duration_seconds

\* max(n.duration_seconds for n in notes)
RECURSIVE MaxDuration(_)
MaxDuration(notes) ==
    IF Len(notes) = 1 THEN notes[1].duration_seconds
    ELSE LET m == MaxDuration(Tail(notes))
         IN  IF notes[1].duration_seconds > m THEN notes[1].duration_seconds ELSE m

\* ChordAction.__init__
ChordAction(notes) == [notes |-> notes, duration_seconds |-> MaxDuration(notes)]

NoNote == NoteAction("", "", "", 0)
\* raise ValueError(msg)
Raise(msg) == [ok |-> FALSE, skip |-> FALSE, msg |-> msg, note |-> NoNote]

\* parse_sequence, lines 115-167: one note_spec, given as note_spec.split(':')
ParseNoteSpec(parts) ==
    IF Len(parts) = 1 /\ Strip(parts[1]) = ""
    THEN [ok |-> TRUE, skip |-> TRUE, msg |-> "", note |-> NoNote]
    ELSE IF Len(parts) # 3 THEN Raise("Invalid note format")
    ELSE LET note_name == Strip(parts[1])
             hand      == Strip(parts[2])
             duration  == Strip(parts[3])
             known     == note_name \in DOMAIN config.notes
         IN  IF LowerName(note_name) # "rest" /\ ~known
                 THEN Raise("Unknown note")
             ELSE IF LowerName(note_name) # "rest" /\ ~config.notes[note_name].exists
                 THEN Raise("Episode not found")
             ELSE IF LowerName(note_name) # "rest" /\ hand \notin {"left", "right"}
                 THEN Raise("Invalid hand")
             ELSE IF LowerName(note_name) # "rest" /\ hand # config.notes[note_name].hand
                 THEN Raise("Hand mismatch")
             ELSE IF duration \notin DOMAIN config.note_durations
                 THEN Raise("Unknown duration")
             ELSE [ok |-> TRUE, skip |-> FALSE, msg |-> "",
                   note |-> NoteAction(note_name, hand, duration,
                                       config.note_durations[duration])]

\* every error of parse_sequence and validate_sequence is a ValueError
Raised(msg) == [ok |-> FALSE, type |-> "ValueError", msg |-> msg, actions |-> <<>>]
Returned(actions) == [ok |-> TRUE, type |-> "", msg |-> "", actions |-> actions]

\* an error that hands the caller the chords built before it
RaiseFrom_Partial(msg, actions) ==
    [ok |-> FALSE, type |-> "ValueError", msg |-> msg, actions |-> actions]

\* the exception leaves parse_sequence: its local list of actions is dropped
RaiseFrom(msg, actions) == Raised(msg)

\* a parser that puts the chord of a closed group in front of the program
CloseGroup_Prepend(actions, note_actions) ==
    IF note_actions # <<>> THEN <<ChordAction(note_actions)>> \o actions ELSE actions

\* a group is closed: its chord, if it has notes, joins the program
CloseGroup(actions, note_actions) ==
    IF note_actions # <<>> THEN Append(actions, ChordAction(note_actions)) ELSE actions

\* parse_sequence, lines 99-175, reading the text from item i on; an item is a
\* note_spec and the separator before it ("->" opens a new group, ";" stays in it)
RECURSIVE ParseFrom(_, _, _, _)
ParseFrom(text, i, actions, note_actions) ==
    IF i > Len(text)
    THEN LET all == CloseGroup(actions, note_actions)
         IN  IF all = <<>> THEN Raised("No valid notes found in sequence")
             ELSE Returned(all)
    ELSE LET item == text[i]
             acts == IF item.pre = "->" THEN CloseGroup(actions, note_actions) ELSE actions
             nts  == IF item.pre = "->" THEN <<>> ELSE note_actions
             r    == ParseNoteSpec(item.parts)
         IN  IF r.skip THEN ParseFrom(text, i + 1, acts, nts)
             ELSE IF ~r.ok THEN RaiseFrom(r.msg, acts)
             ELSE ParseFrom(text, i + 1, acts, Append(nts, r.note))

parse_sequence(text) == ParseFrom(text, 1, <<>>, <<>>)

\* the note_specs the texts are made of
NoteSpecs ==
    { <<"A", "left", "quarter">>,  <<"B", "left", "half">>,  <<" C ", "right ", "quarter">>,
      <<"rest", "none", "quarter">>, <<" ">>, <<"A", "left">>,
      <<"Z", "left", "quarter">>, <<"D", "right", "quarter">>, <<"A", "up", "quarter">>,
      <<"A", "right", "quarter">>, <<"A", "left", "whole">>, <<"E", "right", "quarter">> }

MaxNotes == 3                \* note_specs in a text

Items == [pre : {"->", ";"}, parts : NoteSpecs]

\* the texts of n items; the separator before the first item is the start of the text
IsText(t) == \E n \in 1..MaxNotes : t \in [1..n -> Items] /\ t[1].pre = "->"

NotParsed == [ok |-> FALSE, type |-> "", msg |-> "not parsed", actions |-> <<>>]

\* MusicReplayer.validate_sequence: the note at place n of action a cannot be played
BadNote(actions, a, n) ==
    /\ ~actions[a].notes[n].is_rest
    /\ \/ ~config.notes[actions[a].notes[n].note].exists
       \/ ~config.notes[actions[a].notes[n].note].recorded

\* the first note the two loops of validate_sequence find bad, as <<a, n>>
FirstBad(actions) ==
    LET a1 == CHOOSE a \in 1..Len(actions) :
                 /\ \E n \in 1..Len(actions[a].notes) : BadNote(actions, a, n)
                 /\ \A b \in 1..(a - 1) :
                        \A n \in 1..Len(actions[b].notes) : ~BadNote(actions, b, n)
        n1 == CHOOSE n \in 1..Len(actions[a1].notes) :
                 BadNote(actions, a1, n) /\ \A m \in 1..(n - 1) : ~BadNote(actions, a1, m)
    IN  <<a1, n1>>

NotValidated == [ok |-> FALSE, type |-> "", msg |-> "not validated", problems |-> {}]

\* MusicReplayer.validate_sequence; problems: the notes its error message names
validate_sequence(actions) ==
    LET fails == \E a \in 1..Len(actions) :
                    \E n \in 1..Len(actions[a].notes) : BadNote(actions, a, n)
        bad == FirstBad(actions)
    IN  IF ~fails THEN [ok |-> TRUE, type |-> "", msg |-> "", problems |-> {}]
        ELSE IF ~config.notes[actions[bad[1]].notes[bad[2]].note].exists
             THEN [ok |-> FALSE, type |-> "ValueError", msg |-> "Episode missing",
                   problems |-> {bad}]
             ELSE [ok |-> FALSE, type |-> "ValueError", msg |-> "Note not recorded yet",
                   problems |-> {bad}]

ParseIdle ==
    /\ sequence_str = <<>>
    /\ parse_result = NotParsed
    /\ config = MusicConfigInit
    /\ validate_result = NotValidated

----------------------------------------------------------------------------
(* MusicReplayer: the state of a song *)

MaxThreads == 2              \* notes of a chord in the songs played

NoteHoldTicks == 25          \* for _ in range(25)

\* factor: the speed the task last multiplied its elapsed time by (0: none yet);
\* holding, held: the task is in the hold after its loop, the sends of that hold
IdleThread == [note |-> NoNote, st |-> "idle", elapsed |-> 0, fill_i |-> 0,
               target |-> NonePose, raised |-> FALSE, dirty |-> FALSE, sync |-> FALSE,
               factor |-> 0, holding |-> FALSE, held |-> 0]

SongStart ==
    /\ song_pc = "parse"
    /\ playing = FALSE
    /\ chord_i = 1
    /\ spawn_i = 1
    /\ threads = [t \in 1..MaxThreads |-> IdleThread]
    /\ song_tr = 0
    /\ writers = [j \in Joints |-> {}]
    /\ torn = FALSE
    /\ note_raised = FALSE
    /\ transition_raised = FALSE
    /\ final_started = FALSE
    /\ song_result = "none"
    /\ song_log = <<>>

\* an invocation that plays no song
SongIdle ==
    /\ skip_init = FALSE /\ skip_final = FALSE /\ note_speed = 4 /\ bad_episodes = {}
    /\ tempo_multiplier = 4
    /\ SongStart

----------------------------------------------------------------------------
(* Operations modelled on their own *)

\* no configuration file in config_dir
NoFile == [tempo_bpm |-> 0, note_durations |-> <<>>]

\* what the last call on the MusicConfig was
Called(op, bpm, raised) == [op |-> op, bpm |-> bpm, raised |-> raised]

\* MusicConfig.__init__, lines 28-39
MusicConfigNew ==
    /\ cfg_tempo_bpm = tempo_bpm
    /\ cfg_note_durations = CalculateDurations(tempo_bpm)

\* an invocation that edits no MusicConfig
ConfigIdle ==
    /\ MusicConfigNew
    /\ cfg_file = NoFile
    /\ cfg_last = Called("__init__", 0, "")

\* what the last call on the EpisodeTrimmer was
Trimmed(op, raised) == [op |-> op, raised |-> raised]

\* an invocation that records and trims no episode
TrimIdle ==
    /\ rec_pc = "recording"
    /\ timestamps = <<>>
    /\ joint_positions = <<>>
    /\ trim_last = Trimmed("", "")

\* a call of the interface
Call(op, idxs, raised) == [op |-> op, idxs |-> idxs, raised |-> raised]

\* an invocation that calls the interface through a Replayer or not at all
CallIdle == call = Call("", <<>>, "")

\* an invocation that calls none of the operations modelled on their own
UnitIdle ==
    /\ KnobIdle
    /\ ConfigIdle
    /\ TrimIdle
    /\ CallIdle

----------------------------------------------------------------------------
(* Replayer.run *)

Keys == {"p", "q", "Q", "x"}

Lower(c) == IF c = "Q" THEN "q" ELSE IF c = "P" THEN "p" ELSE c

\* Replayer._check_keyboard_input: the key read (or "" when none is waiting)
KeyRead == IF stdin = <<>> THEN "" ELSE Lower(Head(stdin))
StdinRest == IF stdin = <<>> THEN <<>> ELSE Tail(stdin)

SpeedInputs == {0, 4, 12}

\* the interface before any command of the invocation
IfaceInit ==
    /\ \E s \in InterfaceStates : low_state = s[1] /\ is_initialized = s[2]
    /\ low_cmd = [j \in Joints |-> NoEntry]
    /\ low_cmd_crc = [j \in Joints |-> NoEntry]
    /\ published = NoMsg

\* an interface that is not used
IfaceIdle ==
    /\ low_state = TRUE /\ is_initialized = TRUE
    /\ low_cmd = [j \in Joints |-> NoEntry]
    /\ low_cmd_crc = [j \in Joints |-> NoEntry]
    /\ published = NoMsg

\* Replayer.__init__, lines 55-60
ReplayerInit ==
    /\ pc = "prompt"
    /\ running = FALSE
    /\ paused = FALSE
    /\ start_time = 0
    /\ pause_time = 0
    /\ accumulated_pause_time = 0
    /\ target_pos = NonePose
    /\ trans_start = 0
    /\ hold_i = 0
    /\ outcome = "none"
    /\ stdin = <<>>
    /\ nkeys = 0
    /\ polls = 0
    /\ paused_wall = 0
    /\ pose_at_cancel = NoMsg
    /\ sends_since_cancel = 0
    /\ sent_elapsed = 0
    /\ after_resume = FALSE

\* the Replayer of an invocation that plays no episode through Replayer.run
RunIdle ==
    /\ episode = Episode(<<0>>, <<0>>, "all")
    /\ playback_speed = 4
    /\ skip_transition = FALSE
    /\ ReplayerInit

InitRun ==
    /\ invocation = "run"
    /\ UnitIdle
    /\ now = Epoch
    /\ IfaceInit
    /\ episode \in RunEpisodes
    /\ \E s \in SpeedInputs : playback_speed = Clip(s, SpeedMin, SpeedMax)
    /\ skip_transition \in BOOLEAN
    /\ ReplayerInit
    /\ no_state_at_start = FALSE
    /\ SampleIdle
    /\ ParseIdle
    /\ SongIdle

\* the cancel signal is at the head of the input
CancelRaised == stdin # <<>> /\ Lower(Head(stdin)) = "q"

\* one more pose sent by a loop that has not stopped although cancel is raised
CountSend == IF CancelRaised /\ sends_since_cancel < 2
             THEN sends_since_cancel + 1 ELSE sends_since_cancel

\* the user types a key while the run transitions, plays or is paused
KeyPress ==
    /\ invocation = "run"
    /\ pc \in {"transition", "loop"}
    /\ nkeys < MaxKeys
    /\ \E k \in Keys : stdin' = Append(stdin, k)
    /\ nkeys' = nkeys + 1
    /\ UNCHANGED <<unitVars, sampleVars, parseVars, songIn, songVars, sent_elapsed, after_resume, invocation, now, ifaceVars, episode, playback_speed, skip_transition,
                   pc, running, paused, start_time, pause_time, accumulated_pause_time,
                   target_pos, trans_start, hold_i, outcome, polls, paused_wall,
                   pose_at_cancel, sends_since_cancel, no_state_at_start>>

\* run, lines 159-163: the confirmation prompt
RunPrompt ==
    /\ invocation = "run"
    /\ pc = "prompt"
    /\ \E yes \in BOOLEAN :
         IF yes THEN pc' = "get_state" /\ outcome' = outcome
                ELSE pc' = "returned" /\ outcome' = "Declined"
    /\ UNCHANGED <<unitVars, sampleVars, parseVars, songIn, songVars, sent_elapsed, after_resume, invocation, now, ifaceVars, episode, playback_speed, skip_transition,
                   running, paused, start_time, pause_time, accumulated_pause_time,
                   target_pos, trans_start, hold_i, stdin, nkeys, polls, paused_wall,
                   pose_at_cancel, sends_since_cancel, no_state_at_start>>

\* lines 185-188, entered when the transition is over or skipped
StartPlayback ==
    /\ pc' = "loop"
    /\ running' = TRUE
    /\ paused' = FALSE
    /\ start_time' = now
    /\ accumulated_pause_time' = 0

\* run, lines 167-188: read the state; fail without it; skip the transition if asked
RunGetState ==
    /\ invocation = "run"
    /\ pc = "get_state"
    /\ IF ~low_state
       THEN /\ pc' = "returned"                      \* Failed to get robot state
            /\ outcome' = "Failed"
            /\ no_state_at_start' = TRUE
            /\ UNCHANGED <<running, paused, start_time, accumulated_pause_time,
                           trans_start, target_pos>>
       ELSE /\ target_pos' = Frac(episode.joint_positions[1], 1)
            /\ no_state_at_start' = no_state_at_start
            /\ outcome' = outcome
            /\ IF skip_transition
               THEN StartPlayback /\ trans_start' = trans_start
               ELSE /\ pc' = "transition"
                    /\ trans_start' = now
                    /\ UNCHANGED <<running, paused, start_time, accumulated_pause_time>>
    /\ UNCHANGED <<unitVars, sampleVars, parseVars, songIn, songVars, sent_elapsed, after_resume, invocation, now, ifaceVars, episode, playback_speed, skip_transition,
                   pause_time, hold_i, stdin, nkeys, polls, paused_wall,
                   pose_at_cancel, sends_since_cancel>>

\* Replayer._smooth_transition: one pass of its loop, or the final send
RunTransition ==
    /\ invocation = "run"
    /\ pc = "transition"
    /\ IF ~SendGuard
       THEN /\ pc' = "returned"                      \* RuntimeError leaves run
            /\ outcome' = "Failed"
            /\ UNCHANGED <<now, ifaceVars, running, paused, start_time,
                           accumulated_pause_time, sends_since_cancel>>
       ELSE IF now - trans_start < TransitionDuration
       THEN /\ SendJointCommands(Blend(now - trans_start, TransitionDuration),
                                 episode.joint_indices)
            /\ sends_since_cancel' = CountSend
            /\ now' = now + Tick
            /\ UNCHANGED <<pc, outcome, running, paused, start_time, accumulated_pause_time>>
       ELSE /\ SendJointCommands(target_pos, episode.joint_indices)
            /\ sends_since_cancel' = CountSend
            /\ StartPlayback
            /\ UNCHANGED <<now, outcome>>
    /\ UNCHANGED <<unitVars, sampleVars, parseVars, songIn, songVars, sent_elapsed, after_resume, invocation, episode, playback_speed, skip_transition, pause_time,
                   target_pos, trans_start, hold_i, stdin, nkeys, polls, paused_wall,
                   pose_at_cancel, no_state_at_start>>

\* a hold that goes back to the episode's first frame
HoldPose_FirstFrame == GetTargetPosition(episode, 0)

\* what the finally block holds: the local target_pos
HoldPose == target_pos

\* a finally block that holds whatever target_pos is
LeaveLoop_AlwaysHold(tp) == pc' = "hold"

\* the loop is left with running = False: finally, lines 270-280
LeaveLoop(tp) ==
    IF tp = NonePose THEN pc' = "returned" ELSE pc' = "hold"

\* run, lines 215-230: one pass of the loop while paused
RunPausedPoll ==
    /\ invocation = "run"
    /\ pc = "loop" /\ running /\ paused
    /\ LET current_time == now
           pt == IF pause_time = 0 THEN current_time ELSE pause_time
           key == KeyRead
       IN  /\ key \notin {"p", "q"} => polls < MaxPausePolls
           /\ now' = now + PausePoll
           /\ paused_wall' = paused_wall + PausePoll
           /\ stdin' = StdinRest
           /\ polls' = IF key \in {"p", "q"} THEN polls ELSE polls + 1
           /\ IF key = "p"
              THEN /\ accumulated_pause_time' = accumulated_pause_time + (current_time - pt)
                   /\ pause_time' = 0
                   /\ paused' = FALSE
                   /\ after_resume' = TRUE
                   /\ UNCHANGED <<running, pc, outcome, pose_at_cancel>>
              ELSE IF key = "q"
              THEN /\ running' = FALSE
                   /\ outcome' = "Cancelled"
                   /\ pose_at_cancel' = published
                   /\ LeaveLoop(target_pos)
                   /\ pause_time' = pt
                   /\ UNCHANGED <<paused, accumulated_pause_time, after_resume>>
              ELSE /\ pause_time' = pt
                   /\ UNCHANGED <<running, paused, pc, outcome, accumulated_pause_time,
                                  pose_at_cancel, after_resume>>
    /\ UNCHANGED <<unitVars, sampleVars, parseVars, songIn, songVars, invocation, ifaceVars, episode, playback_speed, skip_transition,
                   start_time, target_pos, trans_start, hold_i, nkeys,
                   sends_since_cancel, sent_elapsed, no_state_at_start>>

\* elapsed wall-clock time the loop maps to a playback time, line 233
Elapsed == now - start_time - accumulated_pause_time

\* run, lines 232-268: one pass of the loop while playing
RunTick ==
    /\ invocation = "run"
    /\ pc = "loop" /\ running /\ ~paused
    /\ LET playback_time == Elapsed * playback_speed
           tp == GetTargetPosition(episode, playback_time)
           key == KeyRead
       IN  /\ target_pos' = tp
           /\ IF tp = NonePose
              THEN /\ running' = FALSE                \* Playback finished
                   /\ outcome' = "Completed"
                   /\ LeaveLoop(tp)
                   /\ UNCHANGED <<now, ifaceVars, paused, stdin, pose_at_cancel,
                                  sends_since_cancel, sent_elapsed, after_resume>>
              ELSE IF ~SendGuard
              THEN /\ running' = running              \* RuntimeError, again in finally
                   /\ outcome' = "Failed"
                   /\ pc' = "returned"
                   /\ UNCHANGED <<now, ifaceVars, paused, stdin, pose_at_cancel,
                                  sends_since_cancel, sent_elapsed, after_resume>>
              ELSE /\ SendJointCommands(tp, episode.joint_indices)
                   /\ sends_since_cancel' = CountSend
                   /\ sent_elapsed' = Elapsed
                   /\ after_resume' = FALSE
                   /\ stdin' = StdinRest
                   /\ paused' = (key = "p")
                   /\ now' = now + Tick
                   /\ IF key = "q"
                      THEN /\ running' = FALSE
                           /\ outcome' = "Cancelled"
                           /\ pose_at_cancel' = published'
                           /\ LeaveLoop(tp)
                      ELSE UNCHANGED <<running, outcome, pc, pose_at_cancel>>
    /\ UNCHANGED <<unitVars, sampleVars, parseVars, songIn, songVars, invocation, episode, playback_speed, skip_transition, start_time,
                   pause_time, accumulated_pause_time, trans_start, hold_i, nkeys, polls,
                   paused_wall, no_state_at_start>>

\* run, lines 274-278: hold the final position
RunHold ==
    /\ invocation = "run"
    /\ pc = "hold"
    /\ IF hold_i < HoldTicks
       THEN /\ SendJointCommands(HoldPose, episode.joint_indices)
            /\ hold_i' = hold_i + 1
            /\ now' = now + Tick
            /\ pc' = pc
       ELSE /\ pc' = "returned"
            /\ UNCHANGED <<now, ifaceVars, hold_i>>
    /\ UNCHANGED <<unitVars, sampleVars, parseVars, songIn, songVars, sent_elapsed, after_resume, invocation, episode, playback_speed, skip_transition, running, paused,
                   start_time, pause_time, accumulated_pause_time, target_pos, trans_start,
                   outcome, stdin, nkeys, polls, paused_wall, pose_at_cancel,
                   sends_since_cancel, no_state_at_start>>

NextRun ==
    \/ KeyPress
    \/ RunPrompt
    \/ RunGetState
    \/ RunTransition
    \/ RunPausedPoll
    \/ RunTick
    \/ RunHold
    \/ LowStateHandler

SpecRun == InitRun /\ [][NextRun]_vars

\* the state of the PlaybackController state machine the run is in
Phase ==
    IF pc \in {"prompt", "get_state"} THEN "Idle"
    ELSE IF pc = "transition" THEN "Transitioning"
    ELSE IF pc = "loop" THEN (IF paused THEN "Paused" ELSE "Playing")
    ELSE outcome

----------------------------------------------------------------------------
(* Properties of Replayer.run *)

NonTerminal == {"Idle", "Transitioning", "Playing", "Paused"}

\* the edges of the state machine; a skipped transition goes from Idle to
\* Playing, and a run that cannot command the robot ends Failed
AllowedEdges ==
    { <<"Idle", "Transitioning">>, <<"Idle", "Playing">>, <<"Idle", "Declined">>,
      <<"Idle", "Failed">>, <<"Transitioning", "Playing">>, <<"Transitioning", "Failed">>,
      <<"Playing", "Paused">>, <<"Paused", "Playing">>, <<"Playing", "Completed">>,
      <<"Playing", "Failed">> }
    \cup { <<s, "Cancelled">> : s \in NonTerminal }

\* C6: a run moves only along Idle -> Transitioning -> Playing -> {Paused <-> Playing}
\* -> Completed, and in every non-terminal state a raised cancel signal makes the
\* next state Cancelled (or the end of the run, if the episode ends on that tick).
C6_StateMachine ==
    [][ Phase' # Phase =>
          /\ <<Phase, Phase'>> \in AllowedEdges
          /\ (CancelRaised /\ Phase \in NonTerminal)
                => Phase' \in {"Cancelled", "Completed", "Failed"} ]_vars

\* C7: once playback has resumed, every paused interval has been added to
\* accumulated_pause_time in full: elapsed playback time excludes all the wall-clock
\* time spent paused.
C7_PauseExcluded ==
    (pc = "loop" /\ running /\ ~paused) => accumulated_pause_time = paused_wall

\* C8: once a run is cancelled the loop has stopped, the only pose sent is the last
\* pose sent before the cancel, and it is re-sent at most HoldTicks times, exactly
\* HoldTicks times when run returns.
C8_HoldLastPose ==
    outcome = "Cancelled" =>
        /\ pc \in {"hold", "returned"} /\ ~running
        /\ published.sent /\ published = pose_at_cancel
        /\ hold_i <= HoldTicks
        /\ (pc = "returned" => hold_i = HoldTicks)

C8_Witness ==
    outcome = "Cancelled" /\ pc = "returned" /\ hold_i = HoldTicks /\ paused

\* C9: once the cancel signal is raised, at most one more pose is sent by a loop
\* that has not stopped.
C9_CancelWithinTick == sends_since_cancel <= 1

----------------------------------------------------------------------------
(* _get_target_position on its own: every episode of up to MaxFrames frames   *)
(* with non-decreasing timestamps, sampled at every quarter of a millisecond  *)

MaxFrames == 3               \* frames of a sampled episode
MaxStamp == 2                \* the largest timestamp, in ms

PosValues == {0, 1, 4}

NonDecreasing(ts) == \A i \in 1..(Len(ts) - 1) : ts[i] <= ts[i + 1]

\* record.py appends time.time() - start_time to timestamps, frame by frame
SampleEpisodes ==
    UNION { { Episode(ts, ps, "arms") :
                ts \in {x \in [1..n -> 0..MaxStamp] : NonDecreasing(x)},
                ps \in [1..n -> PosValues] } : n \in 1..MaxFrames }

SampleTimes == (-2)..(4 * MaxStamp + 2)

InitSample ==
    /\ invocation = "sample"
    /\ UnitIdle
    /\ now = Epoch
    /\ IfaceIdle
    /\ RunIdle
    /\ ParseIdle
    /\ SongIdle
    /\ no_state_at_start = FALSE
    /\ sample_ep \in SampleEpisodes
    /\ sample_t \in SampleTimes
    /\ sample_result = NotSampled

DoSample ==
    /\ invocation = "sample"
    /\ sample_result = NotSampled
    /\ sample_result' = GetTargetPosition(sample_ep, sample_t)
    /\ UNCHANGED <<unitVars, invocation, now, ifaceVars, runVars, sample_ep, sample_t, parseVars,
                   songIn, songVars, no_state_at_start>>

NextSample == DoSample

SpecSample == InitSample /\ [][NextSample]_vars

\* _get_target_position on its own, or called from the loop of Replayer.run
SpecSampleRun == (InitSample \/ InitRun) /\ [][NextSample \/ NextRun]_vars

\* C12: sampling at the timestamp of frame i returns the position of frame i
\* exactly, also when several frames share a timestamp; sampling before time 0
\* or at the first timestamp returns the first frame.
C12_ExactAtFrames ==
    sample_result # NotSampled =>
        /\ \A i \in 1..Len(sample_ep.timestamps) :
              sample_t = 4 * sample_ep.timestamps[i]
                  => sample_result = Frac(sample_ep.joint_positions[i], 1)
        /\ (sample_t < 0 \/ sample_t = 4 * sample_ep.timestamps[1])
              => sample_result = Frac(sample_ep.joint_positions[1], 1)

\* C13: sampling returns no position exactly when the time is beyond the last
\* timestamp; the first such result in the loop of run ends the run as Completed,
\* on a step that sends nothing, and nothing is sent or held afterwards.
C13_FinishedEndsRun ==
    /\ [](sample_result # NotSampled =>
            (sample_result = NonePose <=> sample_t > 4 * Last(sample_ep.timestamps)))
    /\ [](outcome = "Completed" =>
            pc = "returned" /\ ~running /\ target_pos = NonePose /\ hold_i = 0)
    /\ [][ (target_pos # NonePose /\ target_pos' = NonePose) =>
              outcome' = "Completed" /\ published' = published ]_vars

C13_Witness ==
    outcome = "Completed" /\ pc = "returned" /\ published.sent /\ accumulated_pause_time > 0

\* C14: at a time strictly between the timestamps t0 < t1 of two consecutive
\* frames the sample is p0 + ((t - t0) / (t1 - t0)) * (p1 - p0), computed from
\* that pair; at the midpoint it is the mean of p0 and p1.
C14_LinearBetweenFrames ==
    sample_result # NotSampled =>
        \A i \in 1..(Len(sample_ep.timestamps) - 1) :
            LET t0 == 4 * sample_ep.timestamps[i]
                t1 == 4 * sample_ep.timestamps[i + 1]
                p0 == sample_ep.joint_positions[i]
                p1 == sample_ep.joint_positions[i + 1]
            IN  (t0 < sample_t /\ sample_t < t1) =>
                    /\ sample_result.k = "pos"
                    /\ sample_result.n * (t1 - t0)
                         = sample_result.d * (p0 * (t1 - t0) + (p1 - p0) * (sample_t - t0))
                    /\ (2 * sample_t = t0 + t1
                           => 2 * sample_result.n = sample_result.d * (p0 + p1))

C14_Witness ==
    /\ sample_result # NotSampled
    /\ Len(sample_ep.timestamps) = 3
    /\ sample_ep.timestamps[2] < sample_ep.timestamps[3]
    /\ 2 * sample_t = 4 * sample_ep.timestamps[2] + 4 * sample_ep.timestamps[3]
    /\ sample_ep.joint_positions[2] + sample_ep.joint_positions[3] = 5
    /\ sample_result = [k |-> "pos", n |-> 5, d |-> 2]

----------------------------------------------------------------------------
(* parse_sequence on its own *)

InitParse ==
    /\ invocation = "parse"
    /\ UnitIdle
    /\ now = Epoch
    /\ IfaceIdle
    /\ RunIdle
    /\ SampleIdle
    /\ SongIdle
    /\ no_state_at_start = FALSE
    /\ IsText(sequence_str)
    /\ parse_result = NotParsed
    /\ config = MusicConfigInit
    /\ validate_result = NotValidated

DoParse ==
    /\ invocation = "parse"
    /\ parse_result = NotParsed
    /\ parse_result' = parse_sequence(sequence_str)
    /\ UNCHANGED <<unitVars, sampleVars, invocation, now, ifaceVars, runVars, sequence_str, config,
                   validate_result, songIn, songVars, no_state_at_start>>

NextParse == DoParse

SpecParse == InitParse /\ [][NextParse]_vars

\* two notes of the chord that are no rests and are played by the same hand
HandCollision(chord) ==
    \E i, j \in 1..Len(chord.notes) :
        /\ i < j
        /\ ~chord.notes[i].is_rest /\ ~chord.notes[j].is_rest
        /\ chord.notes[i].hand = chord.notes[j].hand

\* C1: parse_sequence returns no program in which a chord holds two non-rest notes
\* of the same hand: such a text is rejected.
C1_NoHandCollision ==
    parse_result.ok =>
        \A c \in 1..Len(parse_result.actions) : ~HandCollision(parse_result.actions[c])

\* validate_sequence called on the program parse_sequence returned
DoValidate ==
    /\ invocation = "parse"
    /\ parse_result.ok
    /\ validate_result = NotValidated
    /\ validate_result' = validate_sequence(parse_result.actions)
    /\ UNCHANGED <<unitVars, sampleVars, invocation, now, ifaceVars, runVars, sequence_str,
                   parse_result, config, songIn, songVars, no_state_at_start>>

\* parse_sequence, then validate_sequence
SpecCompile == InitParse /\ [][DoParse \/ DoValidate]_vars

\* the note_spec is empty after strip(): the parser skips it
EmptySpec(parts) == Len(parts) = 1 /\ Strip(parts[1]) = ""

\* the validation rule a note_spec violates, by the name of the rule's error
RuleViolated(parts) ==
    IF Len(parts) # 3 THEN "FormatError"
    ELSE LET noteId == Strip(parts[1])
             hand   == Strip(parts[2])
             key    == Strip(parts[3])
             rest   == LowerName(noteId) = "rest"
         IN  IF ~rest /\ noteId \notin DOMAIN ConfigNotes THEN "UnknownNoteError"
             ELSE IF ~rest /\ ~ConfigNotes[noteId].exists THEN "MissingEpisodeError"
             ELSE IF ~rest /\ hand \notin {"left", "right"} THEN "InvalidHandError"
             ELSE IF ~rest /\ hand # ConfigNotes[noteId].hand THEN "HandMismatchError"
             ELSE IF key \notin DOMAIN CalculateDurations(tempo_bpm)
                 THEN "UnknownDurationError"
             ELSE ""

\* the places of the text whose note_spec violates a rule
Violations(text) ==
    {i \in 1..Len(text) : ~EmptySpec(text[i].parts) /\ RuleViolated(text[i].parts) # ""}

\* C15: parse_sequence returns a program exactly when no non-empty note_spec
\* violates a rule, and the error it raises is the named error of the violated rule.
C15_NamedErrors ==
    parse_result # NotParsed =>
        LET bad == Violations(sequence_str)
        IN  /\ parse_result.ok <=> bad = {}
            /\ bad # {} =>
                  LET first == CHOOSE i \in bad : \A j \in bad : i <= j
                  IN  parse_result.type = RuleViolated(sequence_str[first].parts)

\* C16: a text in which any note_spec violates a rule yields an error and no
\* program, not even the chords parsed before the error, and parse_sequence leaves
\* the note configuration and the tempo table as they were.
C16_AllOrNothing ==
    parse_result # NotParsed =>
        /\ Violations(sequence_str) # {} => ~parse_result.ok
        /\ ~parse_result.ok => parse_result.actions = <<>>
        /\ config = MusicConfigInit

C16_Witness ==
    /\ parse_result # NotParsed /\ ~parse_result.ok
    /\ parse_result.msg = "Unknown duration"
    /\ Len(sequence_str) = 3
    /\ sequence_str[1].parts = <<"A", "left", "quarter">>
    /\ sequence_str[2].pre = "->" /\ sequence_str[2].parts = <<"B", "left", "half">>
    /\ sequence_str[3].pre = "->"

\* C17: the error of validate_sequence names every note of the program whose
\* episode is missing or not recorded, not only the first one.
C17_BatchReport ==
    validate_result # NotValidated =>
        validate_result.problems =
            { an \in (1..Len(parse_result.actions)) \X (1..MaxNotes) :
                /\ an[2] <= Len(parse_result.actions[an[1]].notes)
                /\ BadNote(parse_result.actions, an[1], an[2]) }

----------------------------------------------------------------------------
(* MusicReplayer.play_song *)

SongTransitionDuration == 2  \* transition_duration of _transition_to_position, in ms
PauseAroundSong == 500       \* time.sleep(0.5) after init and before final

\* MusicRecorder records every note and the init and final positions with
\* joint_group="arms"
RecordedEpisode(ts, ps) == Episode(ts, ps, "arms")

NoteEpisodes ==
    [A     |-> RecordedEpisode(<<0, 2>>, <<1, 3>>),
     B     |-> RecordedEpisode(<<0, 2>>, <<2, 4>>),
     C     |-> RecordedEpisode(<<0, 2>>, <<5, 7>>),
     init  |-> RecordedEpisode(<<0, 2>>, <<0, 10>>),
     final |-> RecordedEpisode(<<0, 2>>, <<0, 20>>)]

Item(pre, parts) == [pre |-> pre, parts |-> parts]

SongTexts ==
    { << Item("->", <<"A", "left", "quarter">>) >>,
      << Item("->", <<"A", "left", "quarter">>), Item("->", <<" C ", "right ", "quarter">>) >>,
      << Item("->", <<"A", "left", "quarter">>), Item(";", <<" C ", "right ", "quarter">>) >>,
      << Item("->", <<"A", "left", "quarter">>), Item(";", <<"B", "left", "half">>) >>,
      << Item("->", <<"A", "left", "quarter">>), Item(";", <<"rest", "none", "quarter">>),
         Item("->", <<"B", "left", "half">>) >>,
      << Item("->", <<"rest", "none", "quarter">>), Item("->", <<" C ", "right ", "quarter">>) >>,
      << Item("->", <<"Z", "left", "quarter">>) >>,
      << Item("->", <<"A", "left", "quarter">>), Item("->", <<"E", "right", "quarter">>) >> }

InitSong ==
    /\ invocation = "song"
    /\ UnitIdle
    /\ now = Epoch
    /\ IfaceInit
    /\ RunIdle
    /\ SampleIdle
    /\ no_state_at_start = FALSE
    /\ sequence_str \in SongTexts
    /\ parse_result = NotParsed
    /\ config = MusicConfigInit
    /\ validate_result = NotValidated
    /\ skip_init \in BOOLEAN
    /\ skip_final \in BOOLEAN
    /\ \E ns \in {NoneSpeed, 12} : note_speed = SongNoteSpeed(4, ns)
    /\ tempo_multiplier \in {2, 4}
    /\ bad_episodes \in {{}, {"A"}, {"C"}, {"init"}}
    /\ SongStart

songHist == <<writers, torn, note_raised, transition_raised, final_started, song_log>>

\* an entry of song_log
Event(ev, i, ms) == [ev |-> ev, i |-> i, ms |-> ms]

\* the log with the event added, once
Logged(log, e) ==
    IF \E k \in 1..Len(log) : log[k] = e THEN log ELSE Append(log, e)

\* a play_song that goes on after a ValueError
ParseFailed_Ignored(r, v) == FALSE

\* play_song, lines 239-241: parse_sequence or validate_sequence raised ValueError
ParseFailed(r, v) == ~r.ok \/ ~v.ok

\* play_song, lines 233-241: parse and validate, return on ValueError
SongParse ==
    /\ invocation = "song"
    /\ song_pc = "parse"
    /\ LET r == parse_sequence(sequence_str)
           v == IF r.ok THEN validate_sequence(r.actions) ELSE NotValidated
       IN  /\ parse_result' = r
           /\ validate_result' = v
           /\ IF ParseFailed(r, v)
              THEN song_pc' = "done" /\ song_result' = "rejected"
              ELSE song_pc' = "confirm" /\ song_result' = song_result
    /\ UNCHANGED <<unitVars, sampleVars, invocation, now, ifaceVars, runVars, sequence_str, config, songIn, playing,
                   chord_i, spawn_i, threads, song_tr, songHist, no_state_at_start>>

\* play_song, lines 246-253: the confirmation prompt
SongConfirm ==
    /\ invocation = "song"
    /\ song_pc = "confirm"
    /\ \E yes \in BOOLEAN :
         IF yes THEN song_pc' = "init" /\ playing' = TRUE /\ song_result' = song_result
                ELSE song_pc' = "done" /\ playing' = playing /\ song_result' = "declined"
    /\ UNCHANGED <<unitVars, sampleVars, invocation, now, ifaceVars, runVars, parseVars, songIn,
                   chord_i, spawn_i, threads, song_tr, songHist, no_state_at_start>>

\* play_song, lines 274-279: an exception ends the song
Abort ==
    /\ song_pc' = "done"
    /\ playing' = FALSE
    /\ song_result' = "error"

\* play_song, lines 255-259, and _transition_to_position up to its loop
SongInit ==
    /\ invocation = "song"
    /\ song_pc = "init"
    /\ IF skip_init
       THEN /\ song_pc' = "sequence"
            /\ UNCHANGED <<now, playing, song_result, song_tr, transition_raised,
                           no_state_at_start>>
       ELSE IF "init" \in bad_episodes
       THEN /\ Abort                                  \* load_episode raises
            /\ transition_raised' = TRUE
            /\ UNCHANGED <<now, song_tr, no_state_at_start>>
       ELSE IF ~low_state
       THEN /\ no_state_at_start' = TRUE              \* Failed to get robot state
            /\ now' = now + PauseAroundSong
            /\ song_pc' = "sequence"
            /\ UNCHANGED <<playing, song_result, song_tr, transition_raised>>
       ELSE /\ song_tr' = now
            /\ song_pc' = "init_loop"
            /\ UNCHANGED <<now, playing, song_result, transition_raised, no_state_at_start>>
    /\ UNCHANGED <<unitVars, sampleVars, invocation, ifaceVars, runVars, parseVars, songIn, chord_i, spawn_i,
                   threads, writers, torn, note_raised, final_started, song_log>>

\* _transition_to_position, lines 403-422: one pass of its loop, or the final send
SongTransition ==
    /\ invocation = "song"
    /\ song_pc \in {"init_loop", "final_loop"}
    /\ LET ep == IF song_pc = "init_loop" THEN NoteEpisodes["init"] ELSE NoteEpisodes["final"]
           target == Frac(Last(ep.joint_positions), 1)
           which == IF song_pc = "init_loop" THEN "init" ELSE "final"
       IN  IF ~SendGuard
           THEN /\ Abort
                /\ transition_raised' = TRUE
                /\ UNCHANGED <<now, ifaceVars, song_log>>
           ELSE IF now - song_tr < SongTransitionDuration
           THEN /\ SendJointCommands(Blend(now - song_tr, SongTransitionDuration),
                                     ep.joint_indices)
                /\ song_log' = Logged(song_log, Event(which, 0, 0))
                /\ now' = now + Tick
                /\ UNCHANGED <<song_pc, playing, song_result, transition_raised>>
           ELSE /\ SendJointCommands(target, ep.joint_indices)
                /\ song_log' = Append(Logged(song_log, Event(which, 0, 0)),
                                      Event(which, 1, 0))
                /\ transition_raised' = transition_raised
                /\ IF song_pc = "init_loop"
                   THEN /\ now' = now + PauseAroundSong
                        /\ song_pc' = "sequence"
                        /\ UNCHANGED <<playing, song_result>>
                   ELSE /\ now' = now
                        /\ song_pc' = "done"
                        /\ playing' = FALSE
                        /\ song_result' = "complete"
    /\ UNCHANGED <<unitVars, sampleVars, invocation, runVars, parseVars, songIn, chord_i, spawn_i, threads,
                   song_tr, writers, torn, note_raised, final_started, no_state_at_start>>

StartThread(note, sync) == [IdleThread EXCEPT !.note = note, !.st = "start", !.sync = sync]

NoThreads == [t \in 1..MaxThreads |-> IdleThread]

\* _play_sequence, lines 297-315: the next action, or the end of the sequence
SongNextChord ==
    /\ invocation = "song"
    /\ song_pc = "sequence"
    /\ LET actions == parse_result.actions
       IN  IF chord_i > Len(actions) \/ ~playing
           THEN /\ song_pc' = "final"
                /\ UNCHANGED <<threads, spawn_i, writers, song_log>>
           ELSE LET notes == actions[chord_i].notes
                IN  /\ writers' = [j \in Joints |-> {}]
                    /\ song_log' = Append(song_log, Event("chord", chord_i, 0))
                    /\ spawn_i' = 1
                    /\ IF Len(notes) = 1
                       THEN IF notes[1].is_rest
                            THEN song_pc' = "after_chord" /\ threads' = NoThreads
                            ELSE /\ song_pc' = "single"
                                 /\ threads' = [NoThreads EXCEPT ![1] = StartThread(notes[1], TRUE)]
                       ELSE song_pc' = "spawn" /\ threads' = NoThreads
    /\ UNCHANGED <<unitVars, sampleVars, invocation, now, ifaceVars, runVars, parseVars, songIn, playing, chord_i,
                   song_tr, torn, note_raised, transition_raised, final_started,
                   song_result, no_state_at_start>>

\* _play_chord, lines 354-358: start the thread of the next note
SongSpawn ==
    /\ invocation = "song"
    /\ song_pc = "spawn"
    /\ LET notes == parse_result.actions[chord_i].notes
       IN  /\ threads' = [threads EXCEPT ![spawn_i] = StartThread(notes[spawn_i], FALSE)]
           /\ spawn_i' = spawn_i + 1
           /\ song_pc' = IF spawn_i = Len(notes) THEN "join" ELSE "spawn"
    /\ UNCHANGED <<unitVars, sampleVars, invocation, now, ifaceVars, runVars, parseVars, songIn, playing, chord_i,
                   song_tr, songHist, song_result, no_state_at_start>>

\* a join that waits for the first thread only
JoinReady_FirstOnly == threads[1].st = "done"

\* a join that never returns
JoinReady_Never == FALSE

\* _play_chord, lines 360-362: every thread has been joined
JoinReady == \A t \in 1..MaxThreads : threads[t].st \in {"idle", "done"}

\* _play_chord, lines 360-367: join, report the exceptions, return
SongJoin ==
    /\ invocation = "song"
    /\ song_pc = "join"
    /\ JoinReady
    /\ song_pc' = "after_chord"
    /\ UNCHANGED <<unitVars, sampleVars, invocation, now, ifaceVars, runVars, parseVars, songIn, playing, chord_i,
                   spawn_i, threads, song_tr, songHist, song_result, no_state_at_start>>

\* _play_sequence, lines 309-312: the single note has returned or raised
SongSingleReturn ==
    /\ invocation = "song"
    /\ song_pc = "single"
    /\ threads[1].st = "done"
    /\ IF threads[1].raised
       THEN Abort                                     \* caught by play_song only
       ELSE song_pc' = "after_chord" /\ UNCHANGED <<playing, song_result>>
    /\ UNCHANGED <<unitVars, sampleVars, invocation, now, ifaceVars, runVars, parseVars, songIn, chord_i,
                   spawn_i, threads, song_tr, songHist, no_state_at_start>>

\* a player that sleeps after every action
WaitAfter_Always(i, n) == TRUE

\* _play_sequence, line 325: `if i < len(actions) - 1`, for the i-th action of n
WaitAfter(i, n) == i < n

\* _play_sequence, lines 317-326: wait before the next action
SongAfterChord ==
    /\ invocation = "song"
    /\ song_pc = "after_chord"
    /\ LET actions == parse_result.actions
           wait_time == WaitTime(actions[chord_i].duration_seconds, tempo_multiplier)
       IN  IF WaitAfter(chord_i, Len(actions))
           THEN /\ now' = now + wait_time
                /\ song_log' = Append(song_log, Event("wait", chord_i, wait_time))
           ELSE UNCHANGED <<now, song_log>>
    /\ chord_i' = chord_i + 1
    /\ song_pc' = "sequence"
    /\ UNCHANGED <<unitVars, sampleVars, invocation, ifaceVars, runVars, parseVars, songIn, playing, spawn_i,
                   threads, song_tr, writers, torn, note_raised, transition_raised,
                   final_started, song_result, no_state_at_start>>

\* play_song, lines 264-270, and _transition_to_position up to its loop
SongFinal ==
    /\ invocation = "song"
    /\ song_pc = "final"
    /\ IF skip_final
       THEN /\ song_pc' = "done" /\ playing' = FALSE /\ song_result' = "complete"
            /\ UNCHANGED <<now, song_tr, final_started, no_state_at_start>>
       ELSE /\ now' = now + PauseAroundSong
            /\ final_started' = TRUE
            /\ IF ~low_state
               THEN /\ no_state_at_start' = TRUE
                    /\ song_pc' = "done" /\ playing' = FALSE /\ song_result' = "complete"
                    /\ song_tr' = song_tr
               ELSE /\ song_tr' = now'
                    /\ song_pc' = "final_loop"
                    /\ UNCHANGED <<playing, song_result, no_state_at_start>>
    /\ UNCHANGED <<unitVars, sampleVars, invocation, ifaceVars, runVars, parseVars, songIn, chord_i, spawn_i,
                   threads, writers, torn, note_raised, transition_raised, song_log>>

----------------------------------------------------------------------------
(* The note tasks: play_note_thread, _play_note_action, _play_episode *)

\* the task is inside send_joint_commands and has written to the command
Building(th) == (th.st = "fill" /\ th.fill_i > 1) \/ th.st \in {"crc", "write"}

\* task t writes to the shared command: it interferes with every other task
\* that is building its own
Interfere(thr, t) ==
    [u \in DOMAIN thr |->
        IF u # t /\ Building(thr[u]) THEN [thr[u] EXCEPT !.dirty = TRUE] ELSE thr[u]]

\* play_note_thread and Replayer.__init__: a rest does nothing; a load may raise
ThreadStart(t) ==
    /\ invocation = "song"
    /\ threads[t].st = "start"
    /\ LET note == threads[t].note
       IN  IF note.is_rest
           THEN /\ threads' = [threads EXCEPT ![t].st = "done"]
                /\ note_raised' = note_raised
           ELSE IF note.note \in bad_episodes
           THEN /\ threads' = [threads EXCEPT ![t].st = "done", ![t].raised = TRUE]
                /\ note_raised' = TRUE
           ELSE /\ threads' = [threads EXCEPT ![t].st = "tick", ![t].elapsed = 0]
                /\ note_raised' = note_raised
    /\ UNCHANGED <<unitVars, sampleVars, invocation, now, ifaceVars, runVars, parseVars, songIn, song_pc, playing,
                   chord_i, spawn_i, song_tr, writers, torn, transition_raised,
                   final_started, song_result, song_log, no_state_at_start>>

\* _play_episode, line 473: `if target_pos is not None` after the loop
HoldsAfter(tp) == tp # NonePose

\* _play_episode, lines 456-468: compute the target, leave the loop or call send;
\* lines 472-476: after the loop, hold the target if there is one
ThreadTick(t) ==
    /\ invocation = "song"
    /\ threads[t].st = "tick"
    /\ LET th == threads[t]
           playback_time == th.elapsed * note_speed
           tp == GetTargetPosition(NoteEpisodes[th.note.note], playback_time)
       IN  IF tp = NonePose
           THEN /\ threads' = [threads EXCEPT ![t].st = IF HoldsAfter(tp) THEN "fill" ELSE "done",
                                              ![t].fill_i = 1,
                                              ![t].holding = HoldsAfter(tp),
                                              ![t].target = tp,
                                              ![t].factor = note_speed]
                /\ note_raised' = note_raised
           ELSE IF ~SendGuard
           THEN /\ threads' = [threads EXCEPT ![t].st = "done", ![t].raised = TRUE,
                                              ![t].factor = note_speed]
                /\ note_raised' = TRUE
           ELSE /\ threads' = [threads EXCEPT ![t].st = "fill", ![t].fill_i = 1,
                                              ![t].target = tp, ![t].dirty = FALSE,
                                              ![t].factor = note_speed]
                /\ note_raised' = note_raised
    /\ UNCHANGED <<unitVars, sampleVars, invocation, now, ifaceVars, runVars, parseVars, songIn, song_pc, playing,
                   chord_i, spawn_i, song_tr, writers, torn, transition_raised,
                   final_started, song_result, song_log, no_state_at_start>>

\* send_joint_commands, lines 377-383: one pass of the loop over joint_indices
ThreadFill(t) ==
    /\ invocation = "song"
    /\ threads[t].st = "fill"
    /\ LET th == threads[t]
           idxs == NoteEpisodes[th.note.note].joint_indices
           j == idxs[th.fill_i]
           next == IF th.fill_i = Len(idxs)
                   THEN [th EXCEPT !.st = "crc"]
                   ELSE [th EXCEPT !.fill_i = th.fill_i + 1]
       IN  /\ low_cmd' = FillJoint(low_cmd, j, th.target)
           /\ writers' = [writers EXCEPT ![j] = writers[j] \cup {t}]
           /\ threads' = [Interfere(threads, t) EXCEPT ![t] = next]
    /\ UNCHANGED <<unitVars, sampleVars, invocation, now, low_state, is_initialized, low_cmd_crc, published,
                   runVars, parseVars, songIn, song_pc, playing, chord_i, spawn_i, song_tr,
                   torn, note_raised, transition_raised, final_started, song_result,
                   song_log, no_state_at_start>>

\* send_joint_commands, line 386: self.low_cmd.crc = self.crc.Crc(self.low_cmd)
ThreadCrc(t) ==
    /\ invocation = "song"
    /\ threads[t].st = "crc"
    /\ low_cmd_crc' = Crc(low_cmd)
    /\ threads' = [Interfere(threads, t) EXCEPT ![t].st = "write"]
    /\ UNCHANGED <<unitVars, sampleVars, invocation, now, low_state, is_initialized, low_cmd, published,
                   runVars, parseVars, songIn, song_pc, playing, chord_i, spawn_i, song_tr,
                   writers, torn, note_raised, transition_raised, final_started,
                   song_result, song_log, no_state_at_start>>

\* send_joint_commands, line 387, and the sleep of the tick (line 470, or line
\* 476 in the hold)
ThreadWrite(t) ==
    /\ invocation = "song"
    /\ threads[t].st = "write"
    /\ published' = [motor_cmd |-> low_cmd, crc |-> low_cmd_crc, sent |-> TRUE]
    /\ torn' = (torn \/ threads[t].dirty)
    /\ threads' =
         IF threads[t].holding
         THEN [threads EXCEPT ![t].held = threads[t].held + 1,
                              ![t].fill_i = 1,
                              ![t].st = IF threads[t].held + 1 < NoteHoldTicks
                                        THEN "fill" ELSE "done"]
         ELSE [threads EXCEPT ![t].st = "tick", ![t].elapsed = threads[t].elapsed + Tick]
    /\ UNCHANGED <<unitVars, sampleVars, invocation, now, low_state, is_initialized, low_cmd, low_cmd_crc,
                   runVars, parseVars, songIn, song_pc, playing, chord_i, spawn_i, song_tr,
                   writers, note_raised, transition_raised, final_started, song_result,
                   song_log, no_state_at_start>>

NextSong ==
    \/ SongParse
    \/ SongConfirm
    \/ SongInit
    \/ SongTransition
    \/ SongNextChord
    \/ SongSpawn
    \/ SongJoin
    \/ SongSingleReturn
    \/ SongAfterChord
    \/ SongFinal
    \/ \E t \in 1..MaxThreads :
          \/ ThreadStart(t)
          \/ ThreadTick(t)
          \/ ThreadFill(t)
          \/ ThreadCrc(t)
          \/ ThreadWrite(t)
    \/ (invocation = "song" /\ LowStateHandler)

SpecSong == InitSong /\ [][NextSong]_vars

\* Replayer.run or MusicReplayer.play_song
SpecPlayback == (InitRun \/ InitSong) /\ [][NextRun \/ NextSong]_vars

----------------------------------------------------------------------------
(* Properties of a song *)

\* C2: no joint is written by two note tasks of the same chord.
C2_DisjointWriters == \A j \in Joints : Cardinality(writers[j]) <= 1

\* C3: every published command was built by one send call that no other task
\* interfered with, and carries the checksum of its own content.
C3_Serialized ==
    /\ ~torn
    /\ published.sent => published.crc = Crc(published.motor_cmd)

\* C4: a song in which only note playback raised has played every chord and has
\* gone on to the final-position transition.
C4_FailureIsolated ==
    (song_pc = "done" /\ note_raised /\ ~transition_raised) =>
        /\ chord_i > Len(parse_result.actions)
        /\ (skip_final \/ final_started)

\* C5: outside _play_chord (and the single-note call) no note task is running:
\* the wait, the next chord and the final transition begin after every task ended.
C5_Barrier ==
    song_pc \notin {"spawn", "join", "single"} =>
        \A t \in 1..MaxThreads : threads[t].st \in {"idle", "done"}

C5_Witness ==
    /\ song_pc = "after_chord"
    /\ \A t \in 1..2 : threads[t].st = "done" /\ threads[t].elapsed > 0 /\ ~threads[t].sync

\* C10: once the interface has reported no joint state at the start of a playback,
\* no command is published in that invocation.
C10_FailFast == no_state_at_start => ~published.sent

C10_Witness ==
    invocation = "song" /\ no_state_at_start /\ note_raised /\ song_pc = "done"

\* C11: the speed that maps wall-clock time to playback time is within
\* [SpeedMin, SpeedMax] (0.25 to 2.0) in every playback: in the loop of Replayer.run
\* and in every note task of a song.
C11_SpeedInBand ==
    /\ pc = "loop" => playback_speed \in SpeedMin..SpeedMax
    /\ \A t \in 1..MaxThreads :
          threads[t].factor # 0 => threads[t].factor \in SpeedMin..SpeedMax

\* C18: when parse_sequence or validate_sequence has failed, the song is over and
\* no command has been sent to the actuator.
C18_NoMotionOnReject ==
    (parse_result # NotParsed /\ (~parse_result.ok \/ ~validate_result.ok)) =>
        /\ song_pc = "done"
        /\ ~published.sent
        /\ song_log = <<>>

C18_Witness ==
    /\ invocation = "song" /\ is_initialized /\ low_state
    /\ song_pc = "done" /\ song_result = "rejected"
    /\ parse_result.ok /\ ~validate_result.ok

\* the place of an event in the order of a song: the init transition, the chords
\* in program order each followed by its wait, the final transition
EventRank(e) ==
    IF e.ev = "init" THEN e.i
    ELSE IF e.ev = "chord" THEN 10 * e.i
    ELSE IF e.ev = "wait" THEN 10 * e.i + 1
    ELSE 1000 + e.i

HasEvent(e) == \E k \in 1..Len(song_log) : song_log[k] = e

\* C19: a song sends the commands of its init transition, then starts every chord
\* in program order, then sends the commands of its final transition; a skipped
\* transition sends no command; no chord is started before the init transition,
\* unless skipped, has sent its final target.
C19_PhaseOrder ==
    /\ \A j, k \in 1..Len(song_log) :
          j < k => EventRank(song_log[j]) < EventRank(song_log[k])
    /\ \A k \in 1..Len(song_log) :
          (song_log[k].ev = "chord" /\ song_log[k].i > 1)
              => HasEvent(Event("chord", song_log[k].i - 1, 0))
    /\ skip_init => ~HasEvent(Event("init", 0, 0)) /\ ~HasEvent(Event("init", 1, 0))
    /\ skip_final => ~HasEvent(Event("final", 0, 0)) /\ ~HasEvent(Event("final", 1, 0))
    /\ HasEvent(Event("final", 0, 0))
          => HasEvent(Event("chord", Len(parse_result.actions), 0))
    /\ (~skip_init /\ HasEvent(Event("chord", 1, 0))) => HasEvent(Event("init", 1, 0))

\* C20: after every chord but the last the player sleeps the chord's duration
\* times tempo_multiplier before it starts the next chord; it does not sleep after
\* the last chord.
C20_InterChordWait ==
    LET actions == parse_result.actions
        Wait(i) == Event("wait", i, (actions[i].duration_seconds * tempo_multiplier) \div 4)
    IN  /\ \A k \in 1..Len(song_log) :
              song_log[k].ev = "wait" =>
                  /\ song_log[k].i < Len(actions)
                  /\ song_log[k] = Wait(song_log[k].i)
        /\ \A i \in 1..Len(actions) :
              (i < chord_i /\ i < Len(actions)) => HasEvent(Wait(i))
        /\ \A k \in 1..Len(song_log) :
              (song_log[k].ev = "chord" /\ song_log[k].i > 1) =>
                  \E j \in 1..(k - 1) : song_log[j] = Wait(song_log[k].i - 1)

C20_Witness ==
    /\ song_pc = "done" /\ song_result = "complete"
    /\ tempo_multiplier = 2
    /\ Len(parse_result.actions) = 2
    /\ Len(parse_result.actions[1].notes) = 2
    /\ HasEvent(Event("wait", 1, 250))
    /\ HasEvent(Event("chord", 2, 0))
    /\ HasEvent(Event("final", 1, 0))

----------------------------------------------------------------------------
(* play_song called twice: the speed arguments and what they govern *)

KnobSpeeds == {2, 4, 8}

InitKnobs ==
    /\ invocation = "knobs"
    /\ now = Epoch
    /\ IfaceIdle
    /\ RunIdle
    /\ SampleIdle
    /\ ParseIdle
    /\ SongIdle
    /\ no_state_at_start = FALSE
    /\ \E s \in KnobSpeeds, m \in KnobSpeeds, ns \in KnobSpeeds \cup {NoneSpeed} :
         knob_a = SongArgs(s, m, ns)
    /\ \E s \in KnobSpeeds, m \in KnobSpeeds, ns \in KnobSpeeds \cup {NoneSpeed} :
         knob_b = SongArgs(s, m, ns)
    /\ knob_obs = [a |-> NotObserved, b |-> NotObserved]
    /\ ConfigIdle
    /\ TrimIdle
    /\ CallIdle

\* what one call of play_song does with its speeds: the transitions are called
\* with no duration (lines 258 and 270) and keep the default of line 370, the
\* notes get note_speed (line 262), the wait after a chord is line 318
Governed(args) ==
    [transition |-> SongTransitionDuration,
     note       |-> SongNoteSpeed(args.playback_speed, args.note_speed),
     wait       |-> WaitTime(note_durations["quarter"], args.tempo_multiplier)]

PlayBoth ==
    /\ invocation = "knobs"
    /\ knob_obs.a = NotObserved
    /\ knob_obs' = [a |-> Governed(knob_a), b |-> Governed(knob_b)]
    /\ UNCHANGED <<invocation, now, ifaceVars, runVars, sampleVars, knob_a, knob_b,
                   configVars, trimVars, call, parseVars, songIn, songVars, no_state_at_start>>

NextKnobs == PlayBoth

SpecKnobs == InitKnobs /\ [][NextKnobs]_vars

\* the two calls differ in the named argument only
OnlyDiffer(field) ==
    /\ knob_a[field] # knob_b[field]
    /\ \A f \in {"playback_speed", "tempo_multiplier", "note_speed"} \ {field} :
         knob_a[f] = knob_b[f]

\* C21: two calls of play_song that differ in one speed argument only differ
\* only in what that argument governs: the transition speed in the duration of
\* the init/final transitions (and they do differ there), the note speed in
\* the speed the episodes of the notes are replayed at, the tempo multiplier
\* in the wait after a chord.
C21_KnobsIndependent ==
    knob_obs.a # NotObserved =>
        /\ OnlyDiffer("playback_speed") =>
             /\ knob_obs.a.note = knob_obs.b.note
             /\ knob_obs.a.wait = knob_obs.b.wait
             /\ knob_obs.a.transition # knob_obs.b.transition
        /\ OnlyDiffer("note_speed") =>
             /\ knob_obs.a.transition = knob_obs.b.transition
             /\ knob_obs.a.wait = knob_obs.b.wait
        /\ OnlyDiffer("tempo_multiplier") =>
             /\ knob_obs.a.transition = knob_obs.b.transition
             /\ knob_obs.a.note = knob_obs.b.note

----------------------------------------------------------------------------
(* The shape of the compiled program *)

\* _play_sequence, line 284: the sum of the chord durations, in ms
RECURSIVE SumDurations(_)
SumDurations(actions) ==
    IF actions = <<>> THEN 0
    ELSE Head(actions).duration_seconds + SumDurations(Tail(actions))

\* the places of the text that hold a non-empty note_spec
NoteSpecsAt(text) == {i \in 1..Len(text) : ~EmptySpec(text[i].parts)}

\* the '->'-separated group place i lies in
GroupOf(text, i) == Cardinality({j \in 1..i : text[j].pre = "->"})

\* the number of non-empty groups up to the group of place i
ChordOf(text, i) == Cardinality({GroupOf(text, j) : j \in {k \in NoteSpecsAt(text) : k <= i}})

\* the number of non-empty note_specs of the group of place i, up to place i
PlaceOf(text, i) ==
    Cardinality({j \in NoteSpecsAt(text) : j <= i /\ GroupOf(text, j) = GroupOf(text, i)})

\* the note a valid note_spec stands for
NoteOf(parts) ==
    [note |-> Strip(parts[1]), hand |-> Strip(parts[2]), duration |-> Strip(parts[3]),
     duration_seconds |-> CalculateDurations(tempo_bpm)[Strip(parts[3])],
     is_rest |-> (Strip(parts[1]) \in {"rest", "REST", "Rest"})]

TwoRests ==
    << Item("->", <<"A", "left", "quarter">>), Item("->", <<"rest", "none", "quarter">>),
       Item("->", <<"B", "left", "half">>) >>

\* C22: the compiled program holds one ChordAction per non-empty '->' group, in
\* the order of the text, each with one NoteAction per non-empty note_spec of
\* its group (fields stripped, rests included); the durations of the chords of
\* "A:left:quarter -> rest:none:quarter -> B:left:half" sum to 2.0 s at 120 BPM;
\* a text with no note_spec is rejected.
C22_ProgramShape ==
    parse_result # NotParsed =>
        LET text == sequence_str
            here == NoteSpecsAt(text)
            acts == parse_result.actions
        IN  /\ here = {} => ~parse_result.ok
            /\ parse_result.ok =>
                 /\ Len(acts) = Cardinality({GroupOf(text, i) : i \in here})
                 /\ \A c \in 1..Len(acts) :
                      Len(acts[c].notes) = Cardinality({i \in here : ChordOf(text, i) = c})
                 /\ \A i \in here :
                      acts[ChordOf(text, i)].notes[PlaceOf(text, i)] = NoteOf(text[i].parts)
            /\ text = TwoRests =>
                 /\ parse_result.ok
                 /\ Len(acts) = 3
                 /\ SumDurations(acts) = 2000

\* a program of two chords, the second of two notes, from a text with an empty note_spec
C22_Witness ==
    /\ parse_result.ok
    /\ Len(sequence_str) = 3
    /\ EmptySpec(sequence_str[2].parts)
    /\ Len(parse_result.actions) = 2
    /\ sequence_str[3].pre = "->"
    /\ parse_result.actions[1].notes[1].note = "A"
    /\ parse_result.actions[2].notes[1].note = "C"

\* C23: the duration of a ChordAction is the largest duration_seconds of its
\* notes, rests included; a quarter with a half lasts the half note.
C23_ChordDuration ==
    parse_result.ok =>
        \A c \in 1..Len(parse_result.actions) :
            LET chord == parse_result.actions[c]
                ds    == {chord.notes[n].duration_seconds : n \in 1..Len(chord.notes)}
            IN  /\ chord.duration_seconds \in ds
                /\ \A d \in ds : d <= chord.duration_seconds
                /\ ds = {500, 1000} => chord.duration_seconds = 1000

\* a chord whose first note is a quarter rest and whose second is a half note
C23_Witness ==
    /\ parse_result.ok
    /\ Len(parse_result.actions) = 1
    /\ Len(parse_result.actions[1].notes) = 2
    /\ parse_result.actions[1].notes[1].is_rest
    /\ parse_result.actions[1].notes[1].duration = "quarter"
    /\ parse_result.actions[1].notes[2].duration = "half"

----------------------------------------------------------------------------
(* MusicConfig: set_tempo, save and load *)

\* the tempos asked for
TempoInputs == {39, 40, 60, 90, 120, 180, 240, 241}

InitConfig ==
    /\ invocation = "config"
    /\ now = Epoch
    /\ IfaceIdle
    /\ RunIdle
    /\ SampleIdle
    /\ ParseIdle
    /\ SongIdle
    /\ KnobIdle
    /\ TrimIdle
    /\ CallIdle
    /\ no_state_at_start = FALSE
    /\ MusicConfigNew
    /\ cfg_file = NoFile
    /\ cfg_last = Called("__init__", 0, "")

\* a set_tempo that keeps the table it had
SetTempoTable_Stale(bpm, table) == table

\* set_tempo, line 67: self._calculate_durations()
SetTempoTable(bpm, table) == CalculateDurations(bpm)

\* MusicConfig.set_tempo, lines 56-68
SetTempo ==
    /\ invocation = "config"
    /\ \E bpm \in TempoInputs :
         IF bpm < 40 \/ bpm > 240
         THEN /\ cfg_last' = Called("set_tempo", bpm, "ValueError")
              /\ UNCHANGED <<cfg_tempo_bpm, cfg_note_durations>>
         ELSE /\ cfg_tempo_bpm' = bpm
              /\ cfg_note_durations' = SetTempoTable(bpm, cfg_note_durations)
              /\ cfg_last' = Called("set_tempo", bpm, "")
    /\ UNCHANGED <<invocation, now, ifaceVars, runVars, sampleVars, knobVars, trimVars, call, cfg_file,
                   parseVars, songIn, songVars, no_state_at_start>>

\* MusicConfig.save, lines 208-242: the tempo and the table go to the file
Save ==
    /\ invocation = "config"
    /\ cfg_file' = [tempo_bpm |-> cfg_tempo_bpm, note_durations |-> cfg_note_durations]
    /\ cfg_last' = Called("save", 0, "")
    /\ UNCHANGED <<invocation, now, ifaceVars, runVars, sampleVars, knobVars, trimVars, call,
                   cfg_tempo_bpm, cfg_note_durations,
                   parseVars, songIn, songVars, no_state_at_start>>

\* MusicConfig.load, lines 245-283: a new MusicConfig takes the tempo and the
\* table of the file, and recalculates the table only when the file has none
Load ==
    /\ invocation = "config"
    /\ IF cfg_file = NoFile
       THEN /\ cfg_last' = Called("load", 0, "FileNotFoundError")
            /\ UNCHANGED <<cfg_tempo_bpm, cfg_note_durations>>
       ELSE /\ cfg_tempo_bpm' = cfg_file.tempo_bpm
            /\ cfg_note_durations' =
                 IF cfg_file.note_durations = <<>>
                 THEN CalculateDurations(cfg_file.tempo_bpm)
                 ELSE cfg_file.note_durations
            /\ cfg_last' = Called("load", 0, "")
    /\ UNCHANGED <<invocation, now, ifaceVars, runVars, sampleVars, knobVars, trimVars, call, cfg_file,
                   parseVars, songIn, songVars, no_state_at_start>>

NextConfig == SetTempo \/ Save \/ Load

SpecConfig == InitConfig /\ [][NextConfig]_vars

\* the table the tempo stands for: quarter = 60/BPM and its multiples, in ms
TableOf(bpm) ==
    LET quarter == 60000 \div bpm
    IN  [full |-> 4 * quarter, half |-> 2 * quarter, quarter |-> quarter,
         eighth |-> quarter \div 2, sixteenth |-> quarter \div 4,
         quarter_dotted |-> (3 * quarter) \div 2, half_dotted |-> 3 * quarter]

----------------------------------------------------------------------------
(* Recorder, DataManager.load_episode and EpisodeTrimmer *)

MaxRecorded == 3             \* frames of a recording
MaxGap == 2                  \* ms between two calls of time.time() of the recorder

InitTrim ==
    /\ invocation = "trim"
    /\ now = Epoch                                  \* Recorder.run, line 118: start_time
    /\ IfaceIdle
    /\ RunIdle
    /\ SampleIdle
    /\ ParseIdle
    /\ SongIdle
    /\ KnobIdle
    /\ ConfigIdle
    /\ CallIdle
    /\ no_state_at_start = FALSE
    /\ TrimIdle

\* Recorder._record_frame, lines 60-72: the frame is stamped with the time since start_time
RecordFrame ==
    /\ invocation = "trim"
    /\ rec_pc = "recording"
    /\ Len(timestamps) < MaxRecorded
    /\ \E gap \in 0..MaxGap, p \in {0, 1} :
         /\ now' = now + gap
         /\ timestamps' = Append(timestamps, now' - Epoch)
         /\ joint_positions' = Append(joint_positions, p)
    /\ UNCHANGED <<invocation, ifaceVars, runVars, sampleVars, knobVars, configVars, call,
                   rec_pc, trim_last, parseVars, songIn, songVars, no_state_at_start>>

\* Recorder._save_recording, DataManager.save_episode and load_episode (lines
\* 96-131), EpisodeTrimmer.load_episode: the arrays come back as they were recorded
LoadEpisode ==
    /\ invocation = "trim"
    /\ rec_pc = "recording"
    /\ Len(timestamps) > 0
    /\ rec_pc' = "loaded"
    /\ UNCHANGED <<invocation, now, ifaceVars, runVars, sampleVars, knobVars, configVars, call,
                   timestamps, joint_positions, trim_last,
                   parseVars, songIn, songVars, no_state_at_start>>

\* timestamps - timestamps[0]
Rebase(ts) == [i \in 1..Len(ts) |-> ts[i] - ts[1]]

\* EpisodeTrimmer.trim_start, lines 92-133
TrimStart ==
    /\ invocation = "trim"
    /\ rec_pc = "loaded"
    /\ \E num_frames \in 0..MaxRecorded :
         IF num_frames <= 0 \/ num_frames >= Len(timestamps)
         THEN /\ trim_last' = Trimmed("trim_start", "ValueError")
              /\ UNCHANGED <<timestamps, joint_positions>>
         ELSE /\ timestamps' = Rebase(SubSeq(timestamps, num_frames + 1, Len(timestamps)))
              /\ joint_positions' = SubSeq(joint_positions, num_frames + 1,
                                           Len(joint_positions))
              /\ trim_last' = Trimmed("trim_start", "")
    /\ UNCHANGED <<invocation, now, ifaceVars, runVars, sampleVars, knobVars, configVars, call,
                   rec_pc, parseVars, songIn, songVars, no_state_at_start>>

\* EpisodeTrimmer.trim_end, lines 135-173: the timestamps are sliced, not rebased
TrimEnd ==
    /\ invocation = "trim"
    /\ rec_pc = "loaded"
    /\ \E num_frames \in 0..MaxRecorded :
         IF num_frames <= 0 \/ num_frames >= Len(timestamps)
         THEN /\ trim_last' = Trimmed("trim_end", "ValueError")
              /\ UNCHANGED <<timestamps, joint_positions>>
         ELSE /\ timestamps' = SubSeq(timestamps, 1, Len(timestamps) - num_frames)
              /\ joint_positions' = SubSeq(joint_positions, 1,
                                           Len(joint_positions) - num_frames)
              /\ trim_last' = Trimmed("trim_end", "")
    /\ UNCHANGED <<invocation, now, ifaceVars, runVars, sampleVars, knobVars, configVars, call,
                   rec_pc, parseVars, songIn, songVars, no_state_at_start>>

\* np.searchsorted(ts, t): the number of stamps before t
SearchLeft(ts, t) == Cardinality({i \in 1..Len(ts) : ts[i] < t})

\* the start_time / end_time of trim_time_range; -1 stands for None
TrimTimes == (-1)..(MaxRecorded * MaxGap)

\* EpisodeTrimmer.trim_time_range, lines 175-227
TrimTimeRange ==
    /\ invocation = "trim"
    /\ rec_pc = "loaded"
    /\ \E t0 \in TrimTimes, t1 \in TrimTimes :
         LET start_idx == IF t0 = -1 THEN 0 ELSE SearchLeft(timestamps, t0)
             end_idx   == IF t1 = -1 THEN Len(timestamps) ELSE SearchLeft(timestamps, t1)
         IN  IF start_idx >= end_idx
             THEN /\ trim_last' = Trimmed("trim_time_range", "ValueError")
                  /\ UNCHANGED <<timestamps, joint_positions>>
             ELSE /\ timestamps' = Rebase(SubSeq(timestamps, start_idx + 1, end_idx))
                  /\ joint_positions' = SubSeq(joint_positions, start_idx + 1, end_idx)
                  /\ trim_last' = Trimmed("trim_time_range", "")
    /\ UNCHANGED <<invocation, now, ifaceVars, runVars, sampleVars, knobVars, configVars, call,
                   rec_pc, parseVars, songIn, songVars, no_state_at_start>>

NextTrim == RecordFrame \/ LoadEpisode \/ TrimStart \/ TrimEnd \/ TrimTimeRange

SpecTrim == InitTrim /\ [][NextTrim]_vars

\* C25: an episode that was loaded, and every episode a sequence of trims makes
\* of it, has non-decreasing timestamps, as many timestamps as position frames
\* and a first timestamp of 0; a rejected trim leaves the episode as it was.
C25_EpisodeInvariants ==
    /\ [](rec_pc = "loaded" =>
            /\ NonDecreasing(timestamps)
            /\ Len(timestamps) = Len(joint_positions)
            /\ timestamps[1] = 0)
    /\ [][trim_last'.raised # "" =>
            timestamps' = timestamps /\ joint_positions' = joint_positions]_vars

----------------------------------------------------------------------------
(* G1Interface: send_joint_commands and set_passive_mode called in sequence *)

\* the joint_indices of the calls: the groups, one joint, none
IndexLists == Range(JOINT_GROUPS) \cup {<<"waist">>, <<>>}

InitIface ==
    /\ invocation = "iface"
    /\ now = Epoch
    /\ IfaceInit
    /\ RunIdle
    /\ SampleIdle
    /\ ParseIdle
    /\ SongIdle
    /\ KnobIdle
    /\ ConfigIdle
    /\ TrimIdle
    /\ CallIdle
    /\ no_state_at_start = FALSE

\* G1Interface.send_joint_commands, lines 332-387
Send ==
    /\ invocation = "iface"
    /\ \E idxs \in IndexLists, p \in {1, 2} :
         IF ~SendGuard
         THEN /\ call' = Call("send_joint_commands", idxs, "RuntimeError")
              /\ UNCHANGED ifaceVars
         ELSE /\ SendJointCommands(Frac(p, 1), idxs)
              /\ call' = Call("send_joint_commands", idxs, "")
    /\ UNCHANGED <<invocation, now, runVars, sampleVars, knobVars, configVars, trimVars,
                   parseVars, songIn, songVars, no_state_at_start>>

\* G1Interface.set_passive_mode, lines 287-330
SetPassiveMode ==
    /\ invocation = "iface"
    /\ \E idxs \in IndexLists :
         IF ~is_initialized
         THEN /\ call' = Call("set_passive_mode", idxs, "RuntimeError")
              /\ UNCHANGED ifaceVars
         ELSE /\ low_cmd' = [j \in Joints |->
                               IF j \in Range(idxs) THEN PassiveCmd ELSE low_cmd[j]]
              /\ low_cmd_crc' = Crc(low_cmd')
              /\ published' = [motor_cmd |-> low_cmd', crc |-> low_cmd_crc', sent |-> TRUE]
              /\ call' = Call("set_passive_mode", idxs, "")
              /\ UNCHANGED <<low_state, is_initialized>>
    /\ UNCHANGED <<invocation, now, runVars, sampleVars, knobVars, configVars, trimVars,
                   parseVars, songIn, songVars, no_state_at_start>>

NextIface == Send \/ SetPassiveMode

SpecIface == InitIface /\ [][NextIface]_vars

\* C26: a call send_joint_commands(positions, joint_indices=S) leaves the command
\* entry (mode, q, dq, tau, kp, kd) of every joint outside S as it was before the
\* call, whatever send and passive-mode calls came before.
C26_OnlySelectedJoints ==
    [][call'.op = "send_joint_commands" =>
         \A j \in Joints \ Range(call'.idxs) : low_cmd'[j] = low_cmd[j]]_vars

\* the arms were commanded after the whole body was made passive: the leg keeps
\* its passive entry
C26_Witness ==
    /\ call = Call("send_joint_commands", JOINT_GROUPS["arms"], "")
    /\ low_cmd["leg"] = PassiveCmd
    /\ low_cmd["waist"] = MotorCmd("waist", Frac(1, 1))
    /\ low_cmd["left_arm"] = MotorCmd("left_arm", Frac(2, 1))

----------------------------------------------------------------------------
(* The commands of a pose transition *)

\* the joints of the command just published that lie in idxs hold pose q
SentTo(idxs, q) == \A j \in Range(idxs) : published'.motor_cmd[j].q = q

\* the joints outside idxs are as they were in the command published before
OthersKept(idxs) ==
    \A j \in Joints \ Range(idxs) : published'.motor_cmd[j] = published.motor_cmd[j]

\* the command just published is a blend at `elapsed` of the way `duration`
BlendSent(idxs, elapsed, duration) ==
    /\ \E q \in {published'.motor_cmd[j].q : j \in Range(idxs)} :
         /\ SentTo(idxs, q)
         /\ q.k = "blend"
         /\ q.d = duration
         /\ 0 <= q.n /\ q.n <= q.d
         /\ elapsed = 0 => q.n = 0
    /\ OthersKept(idxs)

\* C27: a pose transition (Replayer._smooth_transition, _transition_to_position)
\* that runs to its end sends the literal target as its last command; every
\* command before is a blend of start and target at a ratio within 0..1, the
\* start pose itself when no time has elapsed; all of them go to the joints of
\* the episode only.
C27_TransitionCommands ==
    [][/\ (invocation = "run" /\ pc = "transition" /\ now' # now) =>
            BlendSent(episode.joint_indices, now - trans_start, TransitionDuration)
       /\ (invocation = "run" /\ pc = "transition" /\ pc' = "loop") =>
            /\ SentTo(episode.joint_indices, Frac(episode.joint_positions[1], 1))
            /\ OthersKept(episode.joint_indices)
       /\ \A which \in {"init", "final"} :
            LET ep   == NoteEpisodes[which]
                here == invocation = "song" /\ song_pc = IF which = "init" THEN "init_loop"
                                                                            ELSE "final_loop"
            IN  /\ (here /\ song_pc' = song_pc) =>
                     BlendSent(ep.joint_indices, now - song_tr, SongTransitionDuration)
                /\ (here /\ song_pc' # song_pc /\ ~transition_raised') =>
                     /\ SentTo(ep.joint_indices, Frac(Last(ep.joint_positions), 1))
                     /\ OthersKept(ep.joint_indices)]_vars

\* a transition of Replayer.run has just sent its last command, after its blends
C27_Witness ==
    /\ invocation = "run"
    /\ ~skip_transition
    /\ pc = "loop"
    /\ now = start_time
    /\ now - trans_start >= TransitionDuration
    /\ \A j \in Range(episode.joint_indices) :
         published.motor_cmd[j].q = Frac(episode.joint_positions[1], 1)
    /\ episode.joint_indices # JOINT_GROUPS["all"]

----------------------------------------------------------------------------
(* The end of a note task *)

\* the task played its episode through: it is not a rest, nothing was raised
PlayedThrough(th) ==
    /\ th.st = "done"
    /\ ~th.note.is_rest
    /\ ~th.raised
    /\ th.elapsed > 0

\* C28: a note task that has played its episode through has re-sent the last
\* pose for 25 ticks before it returned.
C28_NoteHold ==
    \A t \in 1..MaxThreads :
        PlayedThrough(threads[t]) => threads[t].held = NoteHoldTicks

----------------------------------------------------------------------------
(* A paused run *)

\* C29: while the run is paused no pose is sent and the playback position does
\* not move: a paused pass of the loop polls, resumes or cancels, and the first
\* pose sent after the resume is sampled no later than one tick after the
\* position the playback was frozen at (one tick after the last pose sent).
C29_PausedIsFrozen ==
    /\ [][(pc = "loop" /\ running /\ paused) =>
            /\ published' = published
            /\ target_pos' = target_pos
            /\ sent_elapsed' = sent_elapsed
            /\ outcome' \in {outcome, "Cancelled"}]_vars
    /\ [][(after_resume /\ ~after_resume') =>
            sent_elapsed' <= (sent_elapsed + Tick) + Tick]_vars

----------------------------------------------------------------------------
(* Termination *)

\* play_song, lines 272-273 and 278-279: Ctrl-C in the main thread while the
\* song plays; a note played by the main thread itself ends with it, the
\* threads of a chord run on
SongInterrupt ==
    /\ invocation = "song"
    /\ playing
    /\ song_pc' = "done"
    /\ playing' = FALSE
    /\ song_result' = "interrupted"
    /\ threads' = [t \in 1..MaxThreads |->
                     IF threads[t].sync /\ threads[t].st \notin {"idle", "done"}
                     THEN [threads[t] EXCEPT !.st = "done"]
                     ELSE threads[t]]
    /\ UNCHANGED <<unitVars, sampleVars, invocation, now, ifaceVars, runVars, parseVars,
                   songIn, chord_i, spawn_i, song_tr, songHist, no_state_at_start>>

\* play_music.py main, lines 170-176: the speeds the caller of play_song lets
\* through, in quarters
CallerAccepts(speed, ns) ==
    /\ ~(speed <= 0 \/ speed > 8)
    /\ ~(ns # NoneSpeed /\ (ns <= 0 \/ ns > 20))

NextLive == NextRun \/ NextSong \/ SongInterrupt

\* the songs whose end is checked: one note, a chord, two chords, a rejected text
InitSongLive ==
    /\ InitSong
    /\ \E ns \in {NoneSpeed, 0, 12} :
          /\ CallerAccepts(4, ns)
          /\ note_speed = SongNoteSpeed(4, ns)
    /\ Len(sequence_str) <= 2
    /\ sequence_str[Len(sequence_str)].parts[1] \in {"A", " C ", "Z"}
    /\ tempo_multiplier = 4
    /\ bad_episodes \in {{}, {"A"}}

\* the clock advances and a thread that can run is run: no step of the
\* program that is possible is put off forever; nothing makes the user interrupt
SpecLive == (InitRun \/ InitSongLive) /\ [][NextLive]_vars /\ WF_vars(NextRun \/ NextSong)

\* the invocation has returned and none of its note tasks runs
Terminated ==
    /\ invocation = "run" => pc = "returned"
    /\ invocation = "song" =>
         /\ song_pc = "done"
         /\ \A t \in 1..MaxThreads : threads[t].st \in {"idle", "done"}

\* C30: a playback ends. Unless the run stays paused for ever, the loop of
\* Replayer.run is left and run returns; every note task that was started
\* finishes, so the join of every chord returns, and play_song returns; whenever
\* it has returned - completed, after an error or interrupted - its playing flag
\* is False.
C30_Terminates ==
    /\ (<>[](pc = "loop" /\ paused)) \/ <>Terminated
    /\ [](song_pc = "done" => ~playing)

\* a song of a two-note chord has completed
C30_Witness ==
    /\ song_pc = "done"
    /\ song_result = "complete"
    /\ ~playing
    /\ \A t \in 1..MaxThreads : threads[t].st = "done" /\ threads[t].elapsed > 0

====
